---- MODULE Spec2Model ----
(***************************************************************************)
(* A model of the Makuwro client wrapper: the REST mediator               *)
(* (Client.requestREST), its error mapping (Client.throwErrorFromObject)   *)
(* and the authenticated-user cache (Client.getUser), after the latest     *)
(* revision of the Client class.                                           *)
(*                                                                         *)
(* Every asynchronous call that has not been handed back to its caller is  *)
(* a record in the bag `calls`.  A call advances at its await points: the  *)
(* request is in flight ("fetch"), the body is being read ("json"), the    *)
(* promise is settled ("done"); the abort timer may fire at either await.  *)
(* The server is the environment: it answers any request with any status   *)
(* and any body of the enumerated sets.                                    *)
(***************************************************************************)
EXTENDS Integers, Sequences, FiniteSets, Bags, TLC

VARIABLES
  token,   \* Client.token, set by the constructor
  user,    \* Client.user, the authenticated-user cache
  calls,   \* the bag of asynchronous calls not yet handed back to their callers
  ws,      \* Client.ws, the gateway connection made last
  sockets  \* the gateway connections that are open

vars == <<token, user, calls, ws, sockets>>

\* How many calls may be outstanding at the same time.
MaxInFlight == 2

\* How many gateway connections are made; they are numbered from 1.
MaxSockets == 3

\* this.ws before the first connect().
NoSocket == 0

\* The calls that are outstanding.
Outstanding == BagToSet(calls)

(***************************************************************************)
(* JavaScript values                                                       *)
(***************************************************************************)
\* The value `undefined` of a string-valued argument or field.
Undefined == "<undefined>"

\* The value of the `code` field of a body that has none.
NoCode == -1

\* if (x), !x, x ? a : b on a string or undefined.
Truthy(x) == x # Undefined /\ x # ""

\* `${x}` in a template literal.
Str(x) == IF x = Undefined THEN "undefined" ELSE x

\* String.prototype.toLowerCase on the strings of the model.
ToLowerCase(s) ==
  CASE s = "Alice" -> "alice"
    [] s = "ALICE" -> "alice"
    [] OTHER -> s

\* this.user when nothing is cached; an owner that is absent.
NoUser == [oid |-> 0, id |-> Undefined, username |-> Undefined]

\* A value without the fields of a body: false, undefined.
Scalar(kind) ==
  [kind |-> kind, code |-> NoCode, id |-> Undefined, username |-> Undefined,
   slug |-> Undefined, owner |-> NoUser, token |-> Undefined, items |-> <<>>]

\* The boolean false, as stored in `data` when the body is not read.
JSFalse == Scalar("false")

\* The value undefined.
JSUndefined == Scalar("undefined")

\* The body {code: c} of a rejected request.
ErrorBody(c) == [Scalar("object") EXCEPT !.code = c]

\* The body {id, username} of an account.
AccountBody(i, u) == [Scalar("object") EXCEPT !.id = i, !.username = u]

\* The body [item, ...], an array of bodies.
ArrayBody(items) == [Scalar("array") EXCEPT !.items = items]

\* The body {token} of a new session.
SessionBody(tok) == [Scalar("object") EXCEPT !.token = tok]

\* A plain {id, username} object, as the owner in a decoded body.
PlainOwner(i, u) == [oid |-> 0, id |-> i, username |-> u]

\* The body {id, slug, owner} of a piece of content.
ContentBody(i, slug, owner) == [Scalar("object") EXCEPT !.id = i, !.slug = slug, !.owner = owner]

\* The accounts the server knows.
UserBodies == {AccountBody("id1", "Alice"), AccountBody("id2", "bob")}

\* Codes the server may answer with: those of the table, one that is not, none.
TableCodes == {0, 10000, 10001, 10003, 10004, 10005, 10012, 10013, 20000}
AllCodes == TableCodes \cup {10002, NoCode}
UserCodes == {10005}

NoHeaders == [h \in {} |-> ""]

(***************************************************************************)
(* Users                                                                   *)
(***************************************************************************)
\* Object identities of User instances.
Oids == 1..(2 * MaxInFlight + 2)

\* new User(data, client): Account's constructor copies the fields.
NewUser(data, oid) == [oid |-> oid, id |-> data.id, username |-> data.username]

(***************************************************************************)
(* Settled promises                                                        *)
(***************************************************************************)
\* No model instance.
NoModel == [cls |-> "", id |-> Undefined, slug |-> Undefined, owner |-> NoUser,
            client |-> FALSE, wraps |-> 0]

Pending ==
  [kind |-> "none", error |-> "", value |-> JSFalse, user |-> NoUser, model |-> NoModel,
   models |-> <<>>]
Throw(e) == [Pending EXCEPT !.kind = "throw", !.error = e]
Return(v) == [Pending EXCEPT !.kind = "return", !.value = v]
ReturnUser(u) == [Pending EXCEPT !.kind = "return", !.user = u]
ReturnModel(m) == [Pending EXCEPT !.kind = "return", !.model = m]
ReturnModels(ms) == [Pending EXCEPT !.kind = "return", !.models = ms]

\* A request without a body; the fields of a FormData body.
NoFields == [k \in {} |-> [binary |-> FALSE, text |-> ""]]
NoBody == [present |-> FALSE, fields |-> NoFields]
FormData(fields) == [present |-> TRUE, fields |-> fields]

NoRequest == [path |-> <<>>, method |-> "", headers |-> NoHeaders, body |-> NoBody]
NoResponse == [arrived |-> FALSE, ok |-> FALSE, body |-> JSFalse]

\* The values of props: typeof, String(v), JSON.stringify(v), the file's name.
JSString == [kind |-> "string", str |-> "hello", json |-> "\"hello\"", name |-> ""]
JSFile == [kind |-> "file", str |-> "[object File]", json |-> "{}", name |-> "pic.png"]
JSObject == [kind |-> "object", str |-> "[object Object]", json |-> "{\"text\":\"hi\"}", name |-> ""]
JSNumber == [kind |-> "number", str |-> "5", json |-> "5", name |-> ""]
JSTrue == [kind |-> "boolean", str |-> "true", json |-> "true", name |-> ""]
PropValues == {JSString, JSFile, JSObject, JSNumber, JSTrue}

\* props: undefined, or an object of keys and values.
NoProps == [present |-> FALSE, fields |-> [k \in {} |-> JSString]]
Props(fields) == [present |-> TRUE, fields |-> fields]

\* No file; a file that the browser can decode as an image, and one it cannot.
NoFile == [name |-> "", image |-> FALSE]
Files == {[name |-> "pic.png", image |-> TRUE], [name |-> "notes.txt", image |-> FALSE]}

\* search's type is a number; this one stands for an argument left out.
NoType == -1

IdleCall ==
  [op |-> "none", pc |-> "idle",
   type |-> "", slug |-> Undefined, isThread |-> FALSE, props |-> NoProps,
   via |-> "", recv |-> NoModel,
   accountType |-> "", target |-> Undefined, step |-> "", me |-> NoUser,
   file |-> NoFile, urls |-> [created |-> 0, revoked |-> 0], checked |-> "",
   query |-> Undefined, searchType |-> NoType, tokenArg |-> Undefined,
   username |-> Undefined, id |-> Undefined, self |-> FALSE, userAtCall |-> NoUser,
   method |-> "", getJsonAnyway |-> FALSE, headers |-> NoHeaders,
   sent |-> NoRequest, nreq |-> 0,
   resp |-> NoResponse, decoded |-> FALSE, mapped |-> FALSE, data |-> JSFalse,
   aborted |-> "no", outcome |-> Pending]

(***************************************************************************)
(* Client.throwErrorFromObject                                             *)
(***************************************************************************)
\* An earlier revision's fallback: default: throw new Error(message).
throwErrorFromObject_RawDefault(data) ==
  CASE data.code = 0 -> Throw("UnknownError")
    [] data.code = 10000 -> Throw("BadCredentialsError")
    [] data.code = 10001 -> Throw("InvalidTokenError")
    [] data.code = 10003 -> Throw("AccountBlockedError")
    [] data.code = 10004 -> Throw("AccountConflictError")
    [] data.code = 10005 -> Throw("AccountNotFoundError")
    [] data.code = 10012 -> Throw("UnderageError")
    [] data.code = 10013 -> Throw("UsernameFormatError")
    [] data.code = 20000 -> Throw("ContentConflictError")
    [] OTHER -> Throw("Error")

\* An earlier revision's table, without the cases 10001, 10005 and 20000.
throwErrorFromObject_ShortTable(data) ==
  CASE data.code = 0 -> Throw("UnknownError")
    [] data.code = 10000 -> Throw("BadCredentialsError")
    [] data.code = 10003 -> Throw("AccountBlockedError")
    [] data.code = 10004 -> Throw("AccountConflictError")
    [] data.code = 10012 -> Throw("UnderageError")
    [] data.code = 10013 -> Throw("UsernameFormatError")
    [] OTHER -> Throw("UnknownError")

throwErrorFromObject(data) ==
  CASE data.code = 0 -> Throw("UnknownError")
    [] data.code = 10000 -> Throw("BadCredentialsError")
    [] data.code = 10001 -> Throw("InvalidTokenError")
    [] data.code = 10003 -> Throw("AccountBlockedError")
    [] data.code = 10004 -> Throw("AccountConflictError")
    [] data.code = 10005 -> Throw("AccountNotFoundError")
    [] data.code = 10012 -> Throw("UnderageError")
    [] data.code = 10013 -> Throw("UsernameFormatError")
    [] data.code = 20000 -> Throw("ContentConflictError")
    [] OTHER -> Throw("UnknownError")

(***************************************************************************)
(* Client.requestREST                                                      *)
(***************************************************************************)
\* The spread written last, {token: this.token, ...headers}: the caller's wins.
RequestHeaders_CallerWins(tok, headers) ==
  IF Truthy(tok)
    THEN [h \in DOMAIN headers \cup {"token"} |->
            IF h \in DOMAIN headers THEN headers[h] ELSE tok]
    ELSE headers

\* headers: this.token ? {...headers, token: this.token} : headers
RequestHeaders(tok, headers) ==
  IF Truthy(tok)
    THEN [h \in DOMAIN headers \cup {"token"} |->
            IF h = "token" THEN tok ELSE headers[h]]
    ELSE headers

\* An earlier revision, without the getJsonAnyway parameter.
NeedsJson_GetOnly(method, getJsonAnyway) == method = "GET"

\* (method === "GET" || getJsonAnyway): whether response.json() is awaited.
NeedsJson(method, getJsonAnyway) == method = "GET" \/ getJsonAnyway

\* Up to `await fetch(...)`: the timer is set and the request goes out.
requestREST(call, path, method, headers, getJsonAnyway) ==
  [call EXCEPT !.pc = "fetch",
               !.method = method, !.getJsonAnyway = getJsonAnyway, !.headers = headers,
               !.sent = [path |-> path, method |-> method,
                         headers |-> RequestHeaders(token, headers), body |-> NoBody],
               !.nreq = @ + 1]

\* if (!response.ok) Client.throwErrorFromObject(data); return data;
AfterData(call, data) ==
  IF ~call.resp.ok
    THEN [call EXCEPT !.pc = "done", !.data = data, !.mapped = TRUE,
                      !.outcome = throwErrorFromObject(data)]
    ELSE [call EXCEPT !.pc = "done", !.data = data, !.outcome = Return(data)]

\* fetch resolved: data = (method === "GET" || getJsonAnyway) && await response.json()
OnResponse(call, ok, body) ==
  LET c1 == [call EXCEPT !.resp = [arrived |-> TRUE, ok |-> ok, body |-> body]]
  IN IF NeedsJson(call.method, call.getJsonAnyway)
       THEN [c1 EXCEPT !.pc = "json"]
       ELSE AfterData(c1, JSFalse)

\* response.json() resolved
OnJson(call) == AfterData([call EXCEPT !.decoded = TRUE], call.resp.body)

\* A mediator that answers an abort with another attempt.
OnAbort_Retry(call) == [call EXCEPT !.pc = "fetch", !.nreq = @ + 1]

\* controller.abort() while fetch or response.json() is pending: the pending
\* promise rejects with the abort signal's reason and requestREST rethrows it.
OnAbort(call) ==
  [call EXCEPT !.pc = "done", !.aborted = call.pc, !.outcome = Throw("AbortError")]

\* fetch(..., {body}): the request goes out with a body.
WithBody(call, body) == [call EXCEPT !.sent.body = body]

(***************************************************************************)
(* Client.getUser                                                          *)
(***************************************************************************)
\* The username compared as written, without toLowerCase().
isSelf_CaseSensitive(username, id, cached) ==
  \/ ~Truthy(username) /\ ~Truthy(id)
  \/ Truthy(id) /\ cached # NoUser /\ id = cached.id
  \/ Truthy(username) /\ cached # NoUser /\ username = cached.username

isSelf(username, id, cached) ==
  \/ ~Truthy(username) /\ ~Truthy(id)
  \/ Truthy(id) /\ cached # NoUser /\ id = cached.id
  \/ Truthy(username) /\ cached # NoUser
       /\ ToLowerCase(username) = ToLowerCase(cached.username)

\* `accounts/user${self ? "" : `s/${username}`}`
UserPath(self, username) ==
  IF self THEN <<"accounts", "user">> ELSE <<"accounts", "users", Str(username)>>

\* getUser up to its first await (or its return or throw before it).
getUser(call, username, id) ==
  LET self == isSelf(username, id, user)
      c1 == [call EXCEPT !.op = "getUser", !.username = username, !.id = id,
                         !.self = self, !.userAtCall = user]
  IN IF self /\ user # NoUser
       THEN [c1 EXCEPT !.pc = "done", !.outcome = ReturnUser(user)]
     ELSE IF self /\ ~Truthy(token)
       THEN [c1 EXCEPT !.pc = "done", !.outcome = Throw("InvalidTokenError")]
     ELSE requestREST(c1, UserPath(self, username), "GET", NoHeaders, FALSE)

\* The assignment without its condition, and the assignment left out.
CacheAfter_Always(self, newUser, cached) == newUser
CacheAfter_Never(self, newUser, cached) == cached

\* if (self) this.user = user
CacheAfter(self, newUser, cached) == IF self THEN newUser ELSE cached

Referenced ==
  {user.oid} \cup {c.userAtCall.oid : c \in Outstanding}
             \cup {c.outcome.user.oid : c \in Outstanding}
             \cup {c.outcome.model.owner.oid : c \in Outstanding}
             \cup {c.recv.owner.oid : c \in Outstanding}
             \cup {c.me.oid : c \in Outstanding}
             \cup UNION {{c.outcome.models[i].owner.oid : i \in DOMAIN c.outcome.models} :
                            c \in Outstanding}

FreshOid == CHOOSE o \in Oids : o \notin Referenced /\ \A p \in Oids : p \notin Referenced => o <= p

\* The n-th object to be created in one step.
RECURSIVE NthFreshOid(_)
NthFreshOid(n) ==
  IF n = 1
    THEN FreshOid
    ELSE CHOOSE o \in Oids :
           /\ o \notin Referenced /\ o > NthFreshOid(n - 1)
           /\ \A p \in Oids : (p \notin Referenced /\ p > NthFreshOid(n - 1)) => o <= p

\* A getUser that caches its User only while the cache is empty.
getUserAfter_KeepFirst(call) ==
  LET u == NewUser(call.outcome.value, FreshOid)
  IN [call |-> [call EXCEPT !.outcome = ReturnUser(u)],
      user |-> IF user = NoUser THEN CacheAfter(call.self, u, user) ELSE user]

\* getUser after `await this.requestREST(...)` has returned data.
getUserAfter(call) ==
  LET u == NewUser(call.outcome.value, FreshOid)
  IN [call |-> [call EXCEPT !.outcome = ReturnUser(u)],
      user |-> CacheAfter(call.self, u, user)]

(***************************************************************************)
(* Content: the classes, Client.createContent, updateContent, deleteContent *)
(***************************************************************************)
ContentTypes == {"Art", "BlogPost", "Comment"}

\* static apiDirectoryName of the classes; User has none.
ApiDirectoryName(type) ==
  CASE type = "Art" -> "art"
    [] type = "BlogPost" -> "blogs"
    [] type = "Comment" -> "comments"
    [] type = "Team" -> "team"
    [] OTHER -> Undefined

\* FormData.append(key, value): a File stays a file, anything else is
\* converted with String(value).
FormAppend(v) ==
  IF v.kind = "file" THEN [binary |-> TRUE, text |-> v.name]
                     ELSE [binary |-> FALSE, text |-> v.str]

\* FormData.append(key, text) for a string.
AppendText(text) == [binary |-> FALSE, text |-> text]

\* createContent: typeof value === "string" || value instanceof File
\*                  ? value : JSON.stringify(props[key])
CreateFields(props) ==
  [k \in DOMAIN props.fields |->
     IF props.fields[k].kind \in {"string", "file"}
       THEN FormAppend(props.fields[k])
       ELSE AppendText(props.fields[k].json)]

\* updateContent: formData.append(key, props[key])
UpdateFields(props) == [k \in DOMAIN props.fields |-> FormAppend(props.fields[k])]

\* The request path that puts /comments after every thread, Comment included.
CreatePath_AlwaysThread(type, username, slug, isThread) ==
  <<"contents", Str(ApiDirectoryName(type))>>
    \o (IF Truthy(username) THEN <<username>> ELSE <<>>)
    \o (IF Truthy(slug) THEN <<slug>> ELSE <<>>)
    \o (IF isThread THEN <<"comments">> ELSE <<>>)

\* `contents/${type.apiDirectoryName}${username ? `/${username}` : ""}
\*  ${slug ? `/${slug}` : ""}${isThread && type !== Comment ? "/comments" : ""}`
CreatePath(type, username, slug, isThread) ==
  <<"contents", Str(ApiDirectoryName(type))>>
    \o (IF Truthy(username) THEN <<username>> ELSE <<>>)
    \o (IF Truthy(slug) THEN <<slug>> ELSE <<>>)
    \o (IF isThread /\ type # "Comment" THEN <<"comments">> ELSE <<>>)

\* `contents/${contentType.apiDirectoryName}${username ? `/${username}` : ""}/${slug}`
ContentPath(type, username, slug) ==
  <<"contents", Str(ApiDirectoryName(type))>>
    \o (IF Truthy(username) THEN <<username>> ELSE <<>>)
    \o <<Str(slug)>>

\* createContent up to `await this.requestREST(...)`.
createContent(call, type, username, slug, props, isThread) ==
  LET c == [call EXCEPT !.op = "createContent", !.type = type, !.username = username,
                        !.slug = slug, !.props = props, !.isThread = isThread]
      r == requestREST(c, CreatePath(type, username, slug, isThread), "POST",
                       NoHeaders, TRUE)
  IN IF props.present THEN WithBody(r, FormData(CreateFields(props))) ELSE r

\* updateContent; Object.keys(undefined) throws a TypeError.
updateContent(call, type, username, slug, props) ==
  LET c == [call EXCEPT !.op = "updateContent", !.type = type, !.username = username,
                        !.slug = slug, !.props = props]
  IN IF ~props.present
       THEN [c EXCEPT !.pc = "done", !.outcome = Throw("TypeError")]
       ELSE WithBody(requestREST(c, ContentPath(type, username, slug), "PATCH",
                                 NoHeaders, FALSE),
                     FormData(UpdateFields(props)))

\* deleteContent
deleteContent(call, type, username, slug) ==
  requestREST([call EXCEPT !.op = "deleteContent", !.type = type,
                           !.username = username, !.slug = slug],
              ContentPath(type, username, slug), "DELETE", NoHeaders, FALSE)

\* A constructor that wraps every owner that is present.
Content_AlwaysWrap(cls, data, client, oid) ==
  [cls |-> cls, id |-> data.id, slug |-> data.slug,
   owner |-> IF data.owner # NoUser THEN NewUser(data.owner, oid) ELSE data.owner,
   client |-> client,
   wraps |-> IF data.owner # NoUser THEN 1 ELSE 0]

\* new cls(data, client): the constructor of Content, which Art, BlogPost and
\* Comment inherit. An owner that is a User instance has an oid; `wraps`
\* counts the calls of new User.
Content(cls, data, client, oid) ==
  [cls |-> cls, id |-> data.id, slug |-> data.slug,
   owner |-> IF data.owner # NoUser /\ data.owner.oid = 0
               THEN NewUser(data.owner, oid) ELSE data.owner,
   client |-> client,
   wraps |-> IF data.owner # NoUser /\ data.owner.oid = 0 THEN 1 ELSE 0]

\* Earlier revisions: return new type(data, this.client), a field that the
\* Client does not have.
createContentAfter_ClientField(call) ==
  [call |-> [call EXCEPT !.outcome =
               ReturnModel(Content(call.type, call.outcome.value, FALSE, FreshOid))],
   user |-> user]

\* return new (isThread ? Comment : type)(data, this);
createContentAfter(call) ==
  [call |-> [call EXCEPT !.outcome =
               ReturnModel(Content(IF call.isThread THEN "Comment" ELSE call.type,
                                   call.outcome.value, TRUE, FreshOid))],
   user |-> user]

\* model.delete(): Comment.delete calls deleteComment(this.id), that is
\* deleteContent(Comment, null, id); Content.delete calls
\* deleteContent(this.constructor, this.owner.username, this.slug).
ModelDelete(m) ==
  LET c == [IdleCall EXCEPT !.op = "deleteContent", !.via = "delete", !.recv = m]
  IN IF ~m.client \/ (m.cls # "Comment" /\ m.owner = NoUser)
       THEN [c EXCEPT !.pc = "done", !.outcome = Throw("TypeError")]
       ELSE IF m.cls = "Comment"
              THEN deleteContent(c, "Comment", Undefined, m.id)
              ELSE deleteContent(c, m.cls, m.owner.username, m.slug)

\* model.update(props): updateComment(this.id, props), that is
\* updateContent(Comment, null, id, props), or
\* updateContent(this.constructor, this.owner.username, this.slug, props).
ModelUpdate(m, props) ==
  LET c == [IdleCall EXCEPT !.op = "updateContent", !.via = "update", !.recv = m,
                            !.props = props]
  IN IF ~m.client \/ (m.cls # "Comment" /\ m.owner = NoUser)
       THEN [c EXCEPT !.pc = "done", !.outcome = Throw("TypeError")]
       ELSE IF m.cls = "Comment"
              THEN updateContent(c, "Comment", Undefined, m.id, props)
              ELSE updateContent(c, m.cls, m.owner.username, m.slug, props)

(***************************************************************************)
(* Reading content: Client.getContent, Client.getAllContent                *)
(***************************************************************************)
\* getContent(type, username, slug) up to `await this.requestREST(...)`.
getContent(call, type, username, slug) ==
  requestREST([call EXCEPT !.op = "getContent", !.type = type, !.username = username,
                           !.slug = slug],
              <<"contents", Str(ApiDirectoryName(type)), Str(username), Str(slug)>>,
              "GET", NoHeaders, FALSE)

\* return new type(data, this);
getContentAfter(call) ==
  [call |-> [call EXCEPT !.outcome =
               ReturnModel(Content(call.type, call.outcome.value, TRUE, FreshOid))],
   user |-> user]

\* The default value of getAllContent's username: the getUser() that
\* `this.getUser().username` starts. Nobody awaits it.
DefaultUsernameLookup == [getUser(IdleCall, Undefined, Undefined) EXCEPT !.via = "default"]

\* getAllContent(type, username = this.getUser().username) up to
\* `await this.requestREST(...)`: a Promise has no username, so the default is
\* undefined, as is an argument left out.
getAllContent(call, type, username) ==
  requestREST([call EXCEPT !.op = "getAllContent", !.type = type, !.username = username,
                           !.userAtCall = user],
              <<"contents", Str(ApiDirectoryName(type)), Str(username)>>,
              "GET", NoHeaders, FALSE)

\* for (...) data[i] = new type(data[i]); return data;
getAllContentAfter(call) ==
  [call |-> [call EXCEPT !.outcome =
               ReturnModels([i \in DOMAIN call.outcome.value.items |->
                               Content(call.type, call.outcome.value.items[i], FALSE,
                                       NthFreshOid(i))])],
   user |-> user]

(***************************************************************************)
(* Accounts: Client.deleteAccount, updateAccount, createSession, createUser *)
(***************************************************************************)
AccountTypes == {"User", "Team"}

\* `${x}s` on the strings of the model.
Plural(x) ==
  CASE x = "team" -> "teams"
    [] x = "user" -> "users"
    [] x = "undefined" -> "undefineds"

\* The path with the two branches exchanged.
AccountPath_Swapped(accountType, username, me) ==
  IF username = me.username
    THEN <<"accounts", Plural(Str(ApiDirectoryName(accountType))), Str(username)>>
    ELSE <<"accounts", Str(ApiDirectoryName(accountType))>>

\* `accounts/${accountType.apiDirectoryName}${username ===
\*  (await this.getUser()).username ? "" : `s/${username}`}`
AccountPath(accountType, username, me) ==
  IF username = me.username
    THEN <<"accounts", Str(ApiDirectoryName(accountType))>>
    ELSE <<"accounts", Plural(Str(ApiDirectoryName(accountType))), Str(username)>>

\* deleteAccount and updateAccount once `await this.getUser()` has returned
\* the user `me`: the request of the operation itself goes out.
AccountRequest(call, me) ==
  LET c == [call EXCEPT !.step = "own", !.me = me, !.resp = NoResponse,
                        !.decoded = FALSE, !.data = JSFalse, !.outcome = Pending]
      path == AccountPath(call.accountType, call.target, me)
  IN IF call.op = "deleteAccount"
       THEN requestREST(c, path, "DELETE", [password |-> "pw"], FALSE)
       ELSE WithBody(requestREST(c, path, "PATCH", NoHeaders, FALSE),
                     FormData(UpdateFields(call.props)))

\* deleteAccount and updateAccount up to their first await: getUser() is
\* called without arguments while the path is being put together.
AccountCall(call, op, accountType, username, props) ==
  LET c == [call EXCEPT !.accountType = accountType, !.target = username,
                        !.props = props, !.step = "getUser"]
      g == [getUser(c, Undefined, Undefined) EXCEPT !.op = op]
  IN IF g.pc = "done" /\ g.outcome.kind = "return"
       THEN AccountRequest(g, g.outcome.user)
       ELSE g

\* deleteAccount(accountType, username, password)
deleteAccount(call, accountType, username) ==
  AccountCall(call, "deleteAccount", accountType, username, NoProps)

\* updateAccount(accountType, username, props); Object.keys(undefined) throws.
updateAccount(call, accountType, username, props) ==
  IF ~props.present
    THEN [call EXCEPT !.op = "updateAccount", !.accountType = accountType,
                      !.target = username, !.pc = "done",
                      !.outcome = Throw("TypeError")]
    ELSE AccountCall(call, "updateAccount", accountType, username, props)

\* disableAccount: updateAccount(accountType, username, {isDisabled: true, password})
disableAccount(call, accountType, username) ==
  updateAccount(call, accountType, username,
                Props([isDisabled |-> JSTrue,
                       password |-> [kind |-> "string", str |-> "pw",
                                     json |-> "\"pw\"", name |-> ""]]))

\* Account.delete(password): deleteAccount(this.constructor, this.username,
\* password), on a User that the Client has returned.
AccountDelete(u) ==
  deleteAccount([IdleCall EXCEPT !.via = "Account.delete"], "User", u.username)

\* Account.disable(password): disableAccount(this.constructor, this.username,
\* password), on a User that the Client has returned.
AccountDisable(u) ==
  disableAccount([IdleCall EXCEPT !.via = "Account.disable"], "User", u.username)

\* The nested getUser() has fetched the user: it caches it and returns it,
\* and the operation goes on with its own request.
AccountAfter(call) ==
  LET g == getUserAfter(call)
  IN [call |-> AccountRequest(g.call, g.call.outcome.user), user |-> g.user]

\* createSession without the third argument of requestREST.
createSession_NoJson(call, username, password) ==
  requestREST([call EXCEPT !.op = "createSession", !.target = username],
              <<"accounts", "user", "sessions">>, "POST",
              [username |-> username, password |-> password], FALSE)

\* createSession(username, password)
createSession(call, username, password) ==
  requestREST([call EXCEPT !.op = "createSession", !.target = username],
              <<"accounts", "user", "sessions">>, "POST",
              [username |-> username, password |-> password], TRUE)

\* deleteSessionToken(token = this.token)
deleteSessionToken(call, tokenArg) ==
  requestREST([call EXCEPT !.op = "deleteSessionToken", !.tokenArg = tokenArg],
              <<"accounts", "user", "sessions">>, "DELETE",
              [token |-> IF tokenArg = Undefined THEN token ELSE tokenArg], FALSE)

\* createUser({username, password, birthDate, email}) up to
\* `await this.requestREST(...)`; FormData.append turns the number into text.
createUser(call, username, password, birthDate, email) ==
  WithBody(requestREST([call EXCEPT !.op = "createUser", !.target = username],
                       <<"accounts", "user">>, "POST", NoHeaders, FALSE),
           FormData([username |-> AppendText(username), password |-> AppendText(password),
                     birthDate |-> AppendText(birthDate), email |-> AppendText(email)]))

\* const data = await response.json(): `response` is what requestREST has
\* returned, the boolean false or a decoded body, and neither has a json method.
createUserAfter(call) ==
  [call |-> [call EXCEPT !.outcome = Throw("TypeError")], user |-> user]

(***************************************************************************)
(* Client.uploadImageToLiterature and Client.search                        *)
(***************************************************************************)
\* uploadImageToLiterature up to `await checkImage()`: the handlers are set
\* and image.src = URL.createObjectURL(file) starts the decoding.
uploadImageToLiterature(call, literatureType, literatureOwnerUsername, literatureSlug, file) ==
  [call EXCEPT !.op = "uploadImageToLiterature", !.pc = "check",
               !.type = literatureType, !.username = literatureOwnerUsername,
               !.slug = literatureSlug, !.file = file,
               !.urls = [created |-> @.created + 1, revoked |-> @.revoked]]

\* `contents/${literatureType.apiDirectoryName}/${literatureOwnerUsername}/
\*  ${literatureSlug}/images`
ImagesPath(type, username, slug) ==
  <<"contents", Str(ApiDirectoryName(type)), Str(username), Str(slug), "images">>

\* A handler that resolves without revoking the URL.
imageOnLoad_NoRevoke(call) ==
  WithBody(requestREST([call EXCEPT !.checked = "ok"],
                       ImagesPath(call.type, call.username, call.slug), "POST",
                       NoHeaders, TRUE),
           FormData([image |-> [binary |-> TRUE, text |-> call.file.name]]))

\* image.onload: the URL is revoked and the promise resolved; the call goes
\* on to body.append("image", file) and to the request.
imageOnLoad(call) ==
  WithBody(requestREST([call EXCEPT !.checked = "ok",
                                    !.urls = [created |-> @.created,
                                              revoked |-> @.revoked + 1]],
                       ImagesPath(call.type, call.username, call.slug), "POST",
                       NoHeaders, TRUE),
           FormData([image |-> [binary |-> TRUE, text |-> call.file.name]]))

\* A handler that lets the server decide: it resolves as onload does.
imageOnError_Resolves(call) == imageOnLoad([call EXCEPT !.checked = "failed"])

\* image.onerror: the URL is revoked and the promise rejected.
imageOnError(call) ==
  [call EXCEPT !.pc = "done", !.checked = "failed",
               !.urls = [created |-> @.created, revoked |-> @.revoked + 1],
               !.outcome = Throw("UnallowedFileTypeError")]

\* `search?query=${query}` on the strings of the model.
SearchPath(query) ==
  CASE query = "cats" -> <<"search?query=cats">>
    [] query = "dogs" -> <<"search?query=dogs">>

\* !type for a number: undefined and 0 are falsy.
TruthyNumber(n) == n # NoType /\ n # 0

\* A search that asks the server before it looks at its arguments.
search_RequestFirst(call, query, type) ==
  requestREST([call EXCEPT !.op = "search", !.query = query, !.searchType = type],
              IF Truthy(query) THEN SearchPath(query) ELSE <<"search?query=">>,
              "GET", NoHeaders, FALSE)

\* search(query, type) up to `await this.requestREST(...)`.
search(call, query, type) ==
  LET c == [call EXCEPT !.op = "search", !.query = query, !.searchType = type]
  IN IF ~Truthy(query)
       THEN [c EXCEPT !.pc = "done", !.outcome = Throw("RequiredVariableError: query")]
     ELSE IF ~TruthyNumber(type)
       THEN [c EXCEPT !.pc = "done", !.outcome = Throw("RequiredVariableError: type")]
     ELSE requestREST(c, SearchPath(query), "GET", NoHeaders, FALSE)

\* try { ... await this.requestREST(...) } catch (err) {}: whatever
\* requestREST does, search returns undefined.
searchAfter(call) ==
  [call |-> [call EXCEPT !.outcome = Return(JSUndefined)], user |-> user]

(***************************************************************************)
(* Actions                                                                 *)
(***************************************************************************)
\* A settled promise is handed to its awaiting caller in a microtask, that is
\* before the event loop runs the next task (a response, a timer, a new call).
NoneSettled == \A c \in Outstanding : c.pc # "done"

Replace(old, new) == (calls (-) SetToBag({old})) (+) SetToBag({new})

\* What the caller of requestREST does once requestREST has returned or thrown.
Continuation(call) ==
  CASE call.op = "getUser" /\ call.outcome.kind = "return" -> getUserAfter(call)
    [] call.op = "createContent" /\ call.outcome.kind = "return" -> createContentAfter(call)
    [] call.op = "createUser" /\ call.outcome.kind = "return" -> createUserAfter(call)
    [] call.op = "search" -> searchAfter(call)
    [] call.op = "getContent" /\ call.outcome.kind = "return" -> getContentAfter(call)
    [] call.op = "getAllContent" /\ call.outcome.kind = "return" -> getAllContentAfter(call)
    [] call.step = "getUser" /\ call.outcome.kind = "return" -> AccountAfter(call)
    [] OTHER -> [call |-> call, user |-> user]

\* requestREST has returned or thrown into its caller: the caller continues.
Settle(old, call) ==
  IF call.pc = "done"
    THEN /\ calls' = Replace(old, Continuation(call).call)
         /\ user' = Continuation(call).user
    ELSE /\ calls' = Replace(old, call)
         /\ user' = user

Methods == {"GET", "POST", "PATCH", "DELETE"}
CallerHeaders == {NoHeaders, [password |-> "pw"], [token |-> "other", password |-> "pw"]}

\* A caller invokes requestREST directly; direct calls are made one at a time.
StartRequestREST ==
  /\ calls = EmptyBag
  /\ \E method \in Methods, getJsonAnyway \in BOOLEAN, headers \in CallerHeaders :
       calls' = SetToBag({requestREST([IdleCall EXCEPT !.op = "requestREST"],
                                      <<"contents", "art">>, method, headers,
                                      getJsonAnyway)})
  /\ UNCHANGED <<token, user, ws, sockets>>

\* The arguments {username, id} that callers pass to getUser.
GetUserArgs ==
  {<<Undefined, Undefined>>, <<"alice", Undefined>>, <<"bob", Undefined>>,
   <<Undefined, "id1">>, <<Undefined, "id2">>, <<"bob", "id1">>, <<"alice", "id2">>}

StartGetUser ==
  /\ NoneSettled
  /\ BagCardinality(calls) < MaxInFlight
  /\ \E args \in GetUserArgs :
       calls' = calls (+) SetToBag({getUser(IdleCall, args[1], args[2])})
  /\ UNCHANGED <<token, user, ws, sockets>>

ContentOps ==
  {"createContent", "updateContent", "deleteContent", "getContent", "getAllContent"}
ContentCodes == {20000}

SessionCodes == {10000, 10013}
CreateUserCodes == {10004, 10012, 10013}

ErrorCodes(op) ==
  CASE op = "requestREST" -> AllCodes
    [] op \in ContentOps \cup {"uploadImageToLiterature"} -> ContentCodes
    [] op = "createSession" -> SessionCodes
    [] op = "createUser" -> CreateUserCodes
    [] OTHER -> UserCodes

\* The bodies of content: owned by bob, and without an owner.
ContentBodies ==
  {ContentBody("c1", "s1", PlainOwner("id2", "bob")), ContentBody("c2", "s2", NoUser)}

\* The arrays of content: none, one piece, two pieces.
ArrayBodies ==
  {ArrayBody(<<>>),
   ArrayBody(<<ContentBody("c1", "s1", PlainOwner("id2", "bob"))>>),
   ArrayBody(<<ContentBody("c1", "s1", PlainOwner("id2", "bob")),
               ContentBody("c3", "s3", PlainOwner("id1", "Alice"))>>)}

\* The bodies the server may send with a 2xx status.
OkBodies(op) ==
  CASE op \in {"createContent", "getContent"} -> ContentBodies
    [] op = "getAllContent" -> ArrayBodies
    [] op \in {"updateContent", "deleteContent"} -> {ContentBody("c1", "s1", NoUser)}
    [] op = "createSession" -> {SessionBody("tok2")}
    [] op \in {"uploadImageToLiterature", "search"} -> {ContentBody("c1", "s1", NoUser)}
    [] OTHER -> UserBodies

\* The server's response arrives.
Respond ==
  \E c \in Outstanding :
    /\ NoneSettled
    /\ c.pc = "fetch"
    /\ \E ok \in BOOLEAN :
         \E body \in (IF ok THEN OkBodies(c.op) ELSE {ErrorBody(k) : k \in ErrorCodes(c.op)}) :
           Settle(c, OnResponse(c, ok, body))
    /\ UNCHANGED <<token, ws, sockets>>

\* The body has been read and parsed.
JsonDone ==
  \E c \in Outstanding :
    /\ NoneSettled
    /\ c.pc = "json"
    /\ Settle(c, OnJson(c))
    /\ UNCHANGED <<token, ws, sockets>>

\* setTimeout(() => controller.abort(), this.timeout) fires during the call.
TimerFire ==
  \E c \in Outstanding :
    /\ NoneSettled
    /\ c.pc \in {"fetch", "json"}
    /\ Settle(c, OnAbort(c))
    /\ UNCHANGED <<token, ws, sockets>>

\* The caller has taken the settled promise.
Deliver ==
  \E c \in Outstanding :
    /\ c.pc = "done"
    /\ calls' = calls (-) SetToBag({c})
    /\ UNCHANGED <<token, user, ws, sockets>>

\* The props that callers pass.
PropsArgs ==
  {NoProps} \cup {Props([title |-> v]) : v \in PropValues}
            \cup {Props([title |-> JSString, meta |-> JSObject])}

ContentUsernames == {Undefined, "bob"}
ContentSlugs == {Undefined, "s1"}

\* A caller invokes createContent (createComment passes isThread = true).
StartCreateContent ==
  /\ calls = EmptyBag
  /\ \E type \in ContentTypes, username \in ContentUsernames, slug \in ContentSlugs,
        props \in PropsArgs, isThread \in BOOLEAN :
       calls' = SetToBag({createContent(IdleCall, type, username, slug, props, isThread)})
  /\ UNCHANGED <<token, user, ws, sockets>>

\* A caller invokes updateContent.
StartUpdateContent ==
  /\ calls = EmptyBag
  /\ \E type \in ContentTypes, username \in ContentUsernames, slug \in ContentSlugs,
        props \in PropsArgs :
       calls' = SetToBag({updateContent(IdleCall, type, username, slug, props)})
  /\ UNCHANGED <<token, user, ws, sockets>>

\* The calls that have returned a model to their caller.
Returned == {c \in Outstanding : c.pc = "done" /\ c.outcome.model # NoModel}

\* The caller takes the model it was returned and calls delete() on it.
CallModelDelete ==
  \E c \in Returned :
    /\ calls' = Replace(c, ModelDelete(c.outcome.model))
    /\ UNCHANGED <<token, user, ws, sockets>>

\* The caller takes the model it was returned and calls update(props) on it.
CallModelUpdate ==
  \E c \in Returned, props \in PropsArgs \ {NoProps} :
    /\ calls' = Replace(c, ModelUpdate(c.outcome.model, props))
    /\ UNCHANGED <<token, user, ws, sockets>>

\* The caller takes the model it was returned and constructs another Content
\* of the same class from its id, slug and owner.
CallNewContent ==
  \E c \in Returned :
    LET m == c.outcome.model
        data == ContentBody(m.id, m.slug, m.owner)
    IN /\ calls' = Replace(c, [IdleCall EXCEPT
                                 !.op = "newContent", !.pc = "done", !.recv = m,
                                 !.data = data,
                                 !.outcome = ReturnModel(Content(m.cls, data, TRUE, FreshOid))])
       /\ UNCHANGED <<token, user, ws, sockets>>

AccountUsernames == {"Alice", "alice", "bob"}
AccountProps == {NoProps, Props([about |-> JSString])}

\* A caller invokes deleteAccount.
StartDeleteAccount ==
  /\ calls = EmptyBag
  /\ \E accountType \in AccountTypes, username \in AccountUsernames :
       LET c == deleteAccount(IdleCall, accountType, username)
       IN calls' = SetToBag({c})
  /\ UNCHANGED <<token, user, ws, sockets>>

\* A caller invokes updateAccount.
StartUpdateAccount ==
  /\ calls = EmptyBag
  /\ \E accountType \in AccountTypes, username \in AccountUsernames,
        props \in AccountProps :
       calls' = SetToBag({updateAccount(IdleCall, accountType, username, props)})
  /\ UNCHANGED <<token, user, ws, sockets>>

\* A caller invokes createSession.
StartCreateSession ==
  /\ calls = EmptyBag
  /\ \E username \in {"Alice", "bob"} :
       calls' = SetToBag({createSession(IdleCall, username, "pw")})
  /\ UNCHANGED <<token, user, ws, sockets>>

\* A caller invokes createUser.
StartCreateUser ==
  /\ calls = EmptyBag
  /\ \E username \in {"Alice", "bob"} :
       calls' = SetToBag({createUser(IdleCall, username, "pw", "946684800000", "a@b.c")})
  /\ UNCHANGED <<token, user, ws, sockets>>

\* A caller invokes uploadImageToLiterature.
StartUpload ==
  /\ calls = EmptyBag
  /\ \E type \in {"BlogPost", "Art"}, username \in ContentUsernames,
        slug \in ContentSlugs, file \in Files :
       calls' = SetToBag({uploadImageToLiterature(IdleCall, type, username, slug, file)})
  /\ UNCHANGED <<token, user, ws, sockets>>

\* The browser has decoded the file: image.onload runs.
ImageLoad ==
  \E c \in Outstanding :
    /\ c.pc = "check"
    /\ c.file.image
    /\ calls' = Replace(c, imageOnLoad(c))
    /\ UNCHANGED <<token, user, ws, sockets>>

\* The browser could not decode the file: image.onerror runs.
ImageError ==
  \E c \in Outstanding :
    /\ c.pc = "check"
    /\ ~c.file.image
    /\ calls' = Replace(c, imageOnError(c))
    /\ UNCHANGED <<token, user, ws, sockets>>

SearchQueries == {Undefined, "", "cats", "dogs"}
SearchTypes == {NoType, 0, 1}

\* A caller invokes search; a call that fails or returns at once is settled.
StartSearch ==
  /\ calls = EmptyBag
  /\ \E query \in SearchQueries, type \in SearchTypes :
       calls' = SetToBag({search(IdleCall, query, type)})
  /\ UNCHANGED <<token, user, ws, sockets>>

\* A caller invokes deleteSessionToken, with a token or without.
StartDeleteSessionToken ==
  /\ calls = EmptyBag
  /\ \E tokenArg \in {Undefined, "tok1", "tok9"} :
       calls' = SetToBag({deleteSessionToken(IdleCall, tokenArg)})
  /\ UNCHANGED <<token, user, ws, sockets>>

\* A caller looks up itself or bob, one lookup at a time.
StartLookup ==
  /\ calls = EmptyBag
  /\ \E username \in {Undefined, "bob"} :
       calls' = SetToBag({getUser(IdleCall, username, Undefined)})
  /\ UNCHANGED <<token, user, ws, sockets>>

\* The lookups that have returned a User to their caller.
Found ==
  {c \in Outstanding : c.op = "getUser" /\ c.pc = "done" /\ c.outcome.kind = "return"}

\* The caller takes the User it was returned and calls delete(password) on it.
CallAccountDelete ==
  \E c \in Found :
    /\ calls' = Replace(c, AccountDelete(c.outcome.user))
    /\ UNCHANGED <<token, user, ws, sockets>>

\* The caller takes the User it was returned and calls disable(password) on it.
CallAccountDisable ==
  \E c \in Found :
    /\ calls' = Replace(c, AccountDisable(c.outcome.user))
    /\ UNCHANGED <<token, user, ws, sockets>>

\* A caller invokes getContent.
StartGetContent ==
  /\ calls = EmptyBag
  /\ \E type \in {"Art", "BlogPost"} :
       calls' = SetToBag({getContent(IdleCall, type, "bob", "s1")})
  /\ UNCHANGED <<token, user, ws, sockets>>

\* A caller invokes getAllContent with a username.
StartGetAllContent ==
  /\ calls = EmptyBag
  /\ \E type \in {"Art", "BlogPost"} :
       calls' = SetToBag({getAllContent(IdleCall, type, "bob")})
  /\ UNCHANGED <<token, user, ws, sockets>>

\* A caller invokes getAllContent without a username: the default value is
\* evaluated, which starts a lookup of the authenticated user.
StartGetAllContentOfSelf ==
  /\ calls = EmptyBag
  /\ \E type \in {"Art", "BlogPost"} :
       calls' = SetToBag({DefaultUsernameLookup})
                  (+) SetToBag({getAllContent(IdleCall, type, Undefined)})
  /\ UNCHANGED <<token, user, ws, sockets>>

\* The calls that have returned an array of models to their caller.
ReturnedAll == {c \in Outstanding : c.pc = "done" /\ c.outcome.models # <<>>}

\* The caller takes an item of the array and calls delete() on it.
CallItemDelete ==
  \E c \in ReturnedAll :
    \E i \in DOMAIN c.outcome.models :
      /\ calls' = Replace(c, ModelDelete(c.outcome.models[i]))
      /\ UNCHANGED <<token, user, ws, sockets>>

\* The caller takes an item of the array and calls update(props) on it.
CallItemUpdate ==
  \E c \in ReturnedAll :
    \E i \in DOMAIN c.outcome.models :
      /\ calls' = Replace(c, ModelUpdate(c.outcome.models[i], Props([title |-> JSString])))
      /\ UNCHANGED <<token, user, ws, sockets>>

\* connect(): this.ws = new WebSocket(...), the socket before it left as it
\* is; with a token, `await this.getUser()` follows.
Connect ==
  /\ NoneSettled
  /\ BagCardinality(calls) < MaxInFlight
  /\ ws < MaxSockets
  /\ ws' = ws + 1
  /\ sockets' = sockets \cup {ws + 1}
  /\ calls' = IF Truthy(token)
                THEN calls (+) SetToBag({[getUser(IdleCall, Undefined, Undefined)
                                            EXCEPT !.via = "connect"]})
                ELSE calls
  /\ UNCHANGED <<token, user>>

\* disconnect(): if (this.ws) this.ws.close(); this.ws keeps the socket.
Disconnect ==
  /\ NoneSettled
  /\ sockets' = IF ws # NoSocket THEN sockets \ {ws} ELSE sockets
  /\ UNCHANGED <<token, user, calls, ws>>

Tokens == {Undefined, "tok1"}

Init ==
  /\ token \in Tokens
  /\ user = NoUser
  /\ calls = EmptyBag
  /\ ws = NoSocket
  /\ sockets = {}

\* Direct calls of the mediator.
Next ==
  \/ StartRequestREST
  \/ Respond
  \/ JsonDone
  \/ TimerFire
  \/ Deliver

Spec == Init /\ [][Next]_vars

\* Lookups of users, which may overlap.
NextUser ==
  \/ StartGetUser
  \/ Respond
  \/ JsonDone
  \/ TimerFire
  \/ Deliver

SpecUser == Init /\ [][NextUser]_vars

\* Creating, updating and deleting content, one call at a time.
NextContent ==
  \/ StartCreateContent
  \/ StartUpdateContent
  \/ CallModelDelete
  \/ CallModelUpdate
  \/ CallNewContent
  \/ Respond
  \/ JsonDone
  \/ TimerFire
  \/ Deliver

SpecContent == Init /\ [][NextContent]_vars

\* Accounts and sessions, one call at a time.
NextAccount ==
  \/ StartDeleteAccount
  \/ StartUpdateAccount
  \/ StartCreateSession
  \/ StartCreateUser
  \/ StartDeleteSessionToken
  \/ StartLookup
  \/ CallAccountDelete
  \/ CallAccountDisable
  \/ Respond
  \/ JsonDone
  \/ TimerFire
  \/ Deliver

SpecAccount == Init /\ [][NextAccount]_vars

\* The operations with a local precondition: the image check, the arguments.
NextLocal ==
  \/ StartUpload
  \/ ImageLoad
  \/ ImageError
  \/ StartSearch
  \/ Respond
  \/ JsonDone
  \/ TimerFire
  \/ Deliver

SpecLocal == Init /\ [][NextLocal]_vars

\* Reading content and using the models that were returned.
NextRead ==
  \/ StartGetContent
  \/ StartGetAllContent
  \/ StartGetAllContentOfSelf
  \/ CallModelDelete
  \/ CallModelUpdate
  \/ CallItemDelete
  \/ CallItemUpdate
  \/ Respond
  \/ JsonDone
  \/ TimerFire
  \/ Deliver

SpecRead == Init /\ [][NextRead]_vars

\* The realtime gateway.
NextGateway ==
  \/ Connect
  \/ Disconnect
  \/ Respond
  \/ JsonDone
  \/ TimerFire
  \/ Deliver

SpecGateway == Init /\ [][NextGateway]_vars

(***************************************************************************)
(* The mediator: error mapping, timeout, single attempt, bodies, headers   *)
(***************************************************************************)
\* The error table of the specification: one condition per server code.
ErrorTable(code) ==
  CASE code = 10000 -> "BadCredentialsError"
    [] code = 10001 -> "InvalidTokenError"
    [] code = 10003 -> "AccountBlockedError"
    [] code = 10004 -> "AccountConflictError"
    [] code = 10005 -> "AccountNotFoundError"
    [] code = 10012 -> "UnderageError"
    [] code = 10013 -> "UsernameFormatError"
    [] code = 20000 -> "ContentConflictError"
    [] OTHER -> "UnknownError"

TypedErrors == {ErrorTable(k) : k \in AllCodes}

\* The calls whose request was answered with a non-2xx status and not aborted.
Rejected == {c \in Outstanding : c.pc = "done" /\ c.resp.arrived /\ ~c.resp.ok /\ c.aborted = "no"}

\* The calls whose request was answered with a 2xx status and not aborted.
Accepted == {c \in Outstanding : c.pc = "done" /\ c.resp.arrived /\ c.resp.ok /\ c.aborted = "no"}

\* C1: whatever the method and forceBodyParse, a non-2xx answer whose body
\* carries code c makes requestREST raise the error that the table assigns to c.
C1_RejectionRaisesTableError ==
  \A c \in Rejected : c.outcome = Throw(ErrorTable(c.resp.body.code))

C3_MappingFollowsTable ==
  \A c \in Outstanding :
    c.mapped /\ c.data.code \in TableCodes =>
      /\ c.outcome = Throw(ErrorTable(c.data.code))
      /\ c.data.code # 0 =>
           \A k \in TableCodes \ {0, c.data.code} :
             throwErrorFromObject(ErrorBody(k)) # c.outcome

C3_Witness ==
  \E c \in Outstanding :
    /\ c.mapped /\ c.decoded /\ c.data.code = 20000
    /\ c.outcome = Throw("ContentConflictError")

\* C4: when the timer fires before the response has arrived, the call fails
\* with the Timeout condition.
C4_TimeoutRaisesTimeout ==
  \A c \in Outstanding :
    c.aborted = "fetch" => c.outcome = Throw("TimeoutError")

\* C5: a call of requestREST issues exactly one network request, whatever its
\* outcome: success, rejection or timeout.
C5_OneRequestPerCall ==
  \A c \in Outstanding : c.op = "requestREST" => c.nreq = 1

C5_Witness ==
  \E c \in Outstanding :
    /\ c.op = "requestREST" /\ c.pc = "done" /\ c.aborted = "fetch"
    /\ c.outcome.kind = "throw" /\ c.nreq = 1

\* C6: on a 2xx answer requestREST returns the decoded body when the method is
\* GET or getJsonAnyway is set; otherwise it returns no body and does not decode it.
C6_SuccessBody ==
  \A c \in Accepted :
    IF c.method = "GET" \/ c.getJsonAnyway
      THEN c.decoded /\ c.outcome = Return(c.resp.body)
      ELSE ~c.decoded /\ c.outcome.kind = "return" /\ c.outcome.value.kind # "object"

C6_Witness ==
  \E c \in Accepted :
    /\ c.method = "POST" /\ ~c.getJsonAnyway
    /\ c.outcome = Return(JSFalse) /\ ~c.decoded

\* C7: while the client has a token, every request carries a token header
\* equal to it, next to the caller's other headers; without a token the
\* request carries exactly the caller's headers.
C7_TokenHeader ==
  \A c \in Outstanding :
    c.nreq >= 1 =>
      IF token # Undefined
        THEN /\ DOMAIN c.sent.headers = DOMAIN c.headers \cup {"token"}
             /\ c.sent.headers["token"] = token
             /\ \A h \in DOMAIN c.headers \ {"token"} : c.sent.headers[h] = c.headers[h]
        ELSE c.sent.headers = c.headers

C7_Witness ==
  \E c \in Outstanding :
    /\ token = "tok1" /\ c.nreq = 1
    /\ c.headers = [token |-> "other", password |-> "pw"]
    /\ c.sent.headers = [token |-> "tok1", password |-> "pw"]

(***************************************************************************)
(* The authenticated-user cache                                            *)
(***************************************************************************)
\* A self lookup: no argument, the cached user's id, or the cached user's
\* username ignoring case; the cache is the one the call found.
SelfLookup(c) ==
  /\ c.op = "getUser"
  /\ \/ c.username = Undefined /\ c.id = Undefined
     \/ c.id # Undefined /\ c.userAtCall # NoUser /\ c.id = c.userAtCall.id
     \/ /\ c.username # Undefined /\ c.userAtCall # NoUser
        /\ ToLowerCase(c.username) = ToLowerCase(c.userAtCall.username)

OtherLookup(c) == c.op = "getUser" /\ ~SelfLookup(c)

\* The call that the step has just settled, if any.
SettledNow == {d \in BagToSet(calls') : d.pc = "done"}

\* C8: a self lookup that finds the cache populated returns the cached User
\* without a request; one that finds it empty while the client has no token
\* fails with InvalidTokenError without a request.
C8_SelfLookupUsesCache ==
  \A c \in Outstanding :
    SelfLookup(c) =>
      /\ c.userAtCall # NoUser =>
           c.pc = "done" /\ c.outcome = ReturnUser(c.userAtCall) /\ c.nreq = 0
      /\ c.userAtCall = NoUser /\ token = Undefined =>
           c.pc = "done" /\ c.outcome = Throw("InvalidTokenError") /\ c.nreq = 0

C8_Witness ==
  \E c \in Outstanding :
    /\ SelfLookup(c) /\ c.username = "alice" /\ c.userAtCall.username = "Alice"
    /\ c.outcome = ReturnUser(c.userAtCall) /\ c.nreq = 0

\* C9: a lookup that is not a self lookup issues a request, and the step that
\* settles it, with a result or with an error, leaves the cache as it was.
C9_OtherLookupNotCached ==
  /\ [](\A c \in Outstanding : OtherLookup(c) => c.nreq = 1)
  /\ [][\A d \in SettledNow : OtherLookup(d) => user' = user]_vars

C9_Witness ==
  \E c \in Outstanding :
    /\ OtherLookup(c) /\ c.pc = "done" /\ c.nreq = 1
    /\ c.username = "bob" /\ c.outcome.kind = "return" /\ c.outcome.user.username = "bob"
    /\ user # NoUser /\ user = c.userAtCall /\ user.username = "Alice"

\* C10: the step that settles a self lookup which went to the network stores
\* the User it returns in the cache when it succeeded and leaves the cache as
\* it was when it failed; a self lookup that starts while a User is cached
\* returns that same User without a request.
C10_SelfLookupFillsCache ==
  /\ [][\A d \in SettledNow :
          SelfLookup(d) /\ d.nreq = 1 =>
            /\ d.outcome.kind = "return" => user' = d.outcome.user /\ user' # NoUser
            /\ d.outcome.kind = "throw" => user' = user]_vars
  /\ [][\A d \in SettledNow :
          SelfLookup(d) /\ user # NoUser /\ BagCardinality(calls') > BagCardinality(calls) =>
            d.outcome = ReturnUser(user) /\ d.nreq = 0 /\ user' = user]_vars

C10_Witness ==
  \E c \in Outstanding :
    /\ SelfLookup(c) /\ c.pc = "done" /\ c.nreq = 1 /\ c.userAtCall = NoUser
    /\ c.outcome.kind = "return" /\ user = c.outcome.user /\ user.oid \in Oids


(***************************************************************************)
(* Content: paths, form fields, returned models                            *)
(***************************************************************************)
\* The calls of createContent whose request has gone out.
Created == {c \in Outstanding : c.op = "createContent" /\ c.nreq > 0}

\* "/x iff x is given"
Given(x) == IF x \in {Undefined, ""} THEN <<>> ELSE <<x>>

\* C11 as stated: createContent POSTs to contents/{type.apiDirectoryName}, then
\* /{username} iff a username is given, then /{slug} iff a slug is given, then
\* /comments iff isThread is set, for every content type, Comment included.
C11_PathCommentsIffThread ==
  \A c \in Created :
    /\ c.sent.method = "POST"
    /\ c.sent.path = <<"contents", ApiDirectoryName(c.type)>> \o Given(c.username)
                        \o Given(c.slug)
                        \o (IF c.isThread THEN <<"comments">> ELSE <<>>)

\* C11, amended: the path ends with /comments iff isThread is set and the
\* type is not Comment; the rest of the path and the method are as stated.
C11_PathCommentsIffThreadOfOtherType ==
  \A c \in Created :
    /\ c.sent.method = "POST"
    /\ c.sent.path = <<"contents", ApiDirectoryName(c.type)>> \o Given(c.username)
                        \o Given(c.slug)
                        \o (IF c.isThread /\ c.type # "Comment"
                              THEN <<"comments">> ELSE <<>>)

\* A thread on a comment has been requested: its path does not end with /comments.
C11_Witness ==
  \E c \in Created :
    /\ c.isThread
    /\ c.type = "Comment"
    /\ c.sent.path = <<"contents", "comments", "bob", "s1">>


\* The form field that the specification asks for: a string or a file as it
\* is, anything else as its JSON text.
FieldOf(v) ==
  CASE v = JSString -> [binary |-> FALSE, text |-> "hello"]
    [] v = JSFile -> [binary |-> TRUE, text |-> "pic.png"]
    [] v = JSObject -> [binary |-> FALSE, text |-> "{\"text\":\"hi\"}"]
    [] v = JSNumber -> [binary |-> FALSE, text |-> "5"]
    [] v = JSTrue -> [binary |-> FALSE, text |-> "true"]

\* C12: createContent and updateContent send one form field per key of props:
\* a string or a file unchanged, any other value as its JSON text, never as
\* its default string conversion.
C12_PropsEncodedAsJson ==
  \A c \in Outstanding :
    (c.op \in {"createContent", "updateContent"} /\ c.nreq > 0 /\ c.props.present) =>
      /\ c.sent.body.present
      /\ DOMAIN c.sent.body.fields = DOMAIN c.props.fields
      /\ \A k \in DOMAIN c.props.fields :
           c.sent.body.fields[k] = FieldOf(c.props.fields[k])


\* The calls that a returned model has made with delete() or update(props),
\* the model having what the call reads: a comment its id, other content its
\* owner.
ModelCalls ==
  {c \in Outstanding : c.via \in {"delete", "update"}
                         /\ (c.recv.cls = "Comment" \/ c.recv.owner # NoUser)}

\* C13: on success createContent returns a model of the given type, or a
\* Comment when isThread is set, built from the response body and holding the
\* Client; delete() and update() on that model issue a request of the Client.
C13_ReturnedModelCallsBack ==
  /\ \A c \in Accepted :
       c.op = "createContent" =>
         /\ c.outcome.kind = "return"
         /\ c.outcome.model.cls = (IF c.isThread THEN "Comment" ELSE c.type)
         /\ c.outcome.model.id = c.resp.body.id
         /\ c.outcome.model.slug = c.resp.body.slug
         /\ c.outcome.model.client
  /\ \A c \in ModelCalls :
       /\ c.nreq = 1
       /\ c.sent.method = (IF c.via = "delete" THEN "DELETE" ELSE "PATCH")
       /\ c.sent.path = (IF c.recv.cls = "Comment"
                           THEN <<"contents", "comments", c.recv.id>>
                           ELSE <<"contents", ApiDirectoryName(c.recv.cls),
                                  c.recv.owner.username, c.recv.slug>>)
       /\ token # Undefined => c.sent.headers.token = token

\* A piece of art returned by createContent has been asked to delete itself.
C13_Witness ==
  \E c \in ModelCalls :
    /\ c.via = "delete"
    /\ c.recv.cls = "Art"
    /\ c.sent.path = <<"contents", "art", "bob", "s1">>
    /\ c.sent.headers = [token |-> "tok1"]


(***************************************************************************)
(* The Content constructor and the owner                                   *)
(***************************************************************************)
\* The calls in which a Content has been constructed from c.data.
Constructed ==
  {c \in Outstanding : c.pc = "done" /\ c.outcome.model # NoModel /\ c.data.owner # NoUser}

\* C17: after the constructor has run on data with an owner, the owner is a
\* User instance: a plain object has been wrapped into a new User exactly once,
\* a User has been kept as the same object and not wrapped again.
C17_OwnerWrappedOnce ==
  \A c \in Constructed :
    LET given == c.data.owner
        owner == c.outcome.model.owner
    IN /\ owner.oid \in Oids
       /\ owner.id = given.id
       /\ owner.username = given.username
       /\ given.oid = 0 => c.outcome.model.wraps = 1
       /\ given.oid # 0 => c.outcome.model.wraps = 0 /\ owner.oid = given.oid

\* A Content has been constructed from the owner of another Content.
C17_Witness ==
  \E c \in Constructed :
    /\ c.op = "newContent"
    /\ c.data.owner.oid # 0
    /\ c.recv.wraps = 1
    /\ c.outcome.model.owner = c.recv.owner


(***************************************************************************)
(* Accounts and sessions                                                   *)
(***************************************************************************)
\* The calls of deleteAccount and updateAccount whose own request has gone out.
AccountRequests ==
  {c \in Outstanding : c.op \in {"deleteAccount", "updateAccount"} /\ c.step = "own"}

\* C14: deleteAccount and updateAccount send their request to
\* accounts/{apiDirectoryName} when the target username is the authenticated
\* user's own and to accounts/{apiDirectoryName}s/{username} for any other
\* username; deleteAccount uses DELETE and updateAccount uses PATCH.
C14_AccountPath ==
  \A c \in AccountRequests :
    /\ c.sent.method = (IF c.op = "deleteAccount" THEN "DELETE" ELSE "PATCH")
    /\ c.target = user.username =>
         c.sent.path = <<"accounts", Str(ApiDirectoryName(c.accountType))>>
    /\ c.target # user.username =>
         c.sent.path = <<"accounts", Plural(Str(ApiDirectoryName(c.accountType))),
                         c.target>>

\* Alice, signed in, has asked to delete the team account bob.
C14_Witness ==
  \E c \in AccountRequests :
    /\ c.op = "deleteAccount"
    /\ user.username = "Alice"
    /\ c.target = "bob"
    /\ c.sent.path = <<"accounts", "teams", "bob">>
    /\ c.sent.method = "DELETE"

\* The calls of createSession that have ended without the timer cutting them short.
Sessions == {c \in Outstanding : c.op = "createSession" /\ c.pc = "done" /\ c.aborted = "no"}

\* C15: createSession sends one POST to accounts/user/sessions with the
\* username and the password as headers; rejected with code 10000 it raises
\* BadCredentials, with code 10013 UsernameFormat; on success it returns the
\* decoded session body, which holds the token.
C15_CreateSession ==
  \A c \in Sessions :
    /\ c.nreq = 1
    /\ c.sent.method = "POST"
    /\ c.sent.path = <<"accounts", "user", "sessions">>
    /\ c.sent.headers.username = c.target
    /\ c.sent.headers.password = "pw"
    /\ (~c.resp.ok /\ c.resp.body.code = 10000) => c.outcome = Throw("BadCredentialsError")
    /\ (~c.resp.ok /\ c.resp.body.code = 10013) => c.outcome = Throw("UsernameFormatError")
    /\ c.resp.ok => c.outcome = Return(c.resp.body) /\ c.outcome.value.token # Undefined

\* A session has been refused with code 10000.
C15_Witness ==
  \E c \in Sessions :
    /\ ~c.resp.ok
    /\ c.resp.body.code = 10000
    /\ c.outcome = Throw("BadCredentialsError")

\* The calls of createUser that have ended without the timer cutting them short.
Creations == {c \in Outstanding : c.op = "createUser" /\ c.pc = "done" /\ c.aborted = "no"}

\* C16: createUser sends one POST to accounts/user with the form fields
\* username, password, birthDate and email; on a 2xx answer it returns a User
\* built from the body, and on a rejection it raises the error of the code
\* (10004 AccountConflict, 10012 Underage, 10013 UsernameFormat).
C16_CreateUser ==
  \A c \in Creations :
    /\ c.nreq = 1
    /\ c.sent.method = "POST"
    /\ c.sent.path = <<"accounts", "user">>
    /\ DOMAIN c.sent.body.fields = {"username", "password", "birthDate", "email"}
    /\ c.resp.ok =>
         /\ c.outcome.kind = "return"
         /\ c.outcome.user.id = c.resp.body.id
         /\ c.outcome.user.username = c.resp.body.username
    /\ ~c.resp.ok => c.outcome = Throw(ErrorTable(c.resp.body.code))


(***************************************************************************)
(* Local preconditions: the image check, the arguments of search           *)
(***************************************************************************)
Uploads == {c \in Outstanding : c.op = "uploadImageToLiterature"}

\* C18: when the file cannot be decoded as an image, uploadImageToLiterature
\* fails with UnallowedFileType and sends nothing; the POST to
\* contents/{typeDir}/{username}/{slug}/images goes out only after the file
\* has been decoded.
C18_UploadOnlyAfterDecode ==
  \A c \in Uploads :
    /\ (~c.file.image /\ c.pc # "check") =>
         /\ c.pc = "done"
         /\ c.outcome = Throw("UnallowedFileTypeError")
         /\ c.nreq = 0
    /\ c.nreq > 0 =>
         /\ c.file.image
         /\ c.checked = "ok"
         /\ c.sent.method = "POST"
         /\ c.sent.path = <<"contents", ApiDirectoryName(c.type), Str(c.username),
                             Str(c.slug), "images">>

\* A text file has been refused, and nothing was sent.
C18_Witness ==
  \E c \in Uploads :
    /\ c.file.name = "notes.txt"
    /\ c.outcome = Throw("UnallowedFileTypeError")
    /\ c.nreq = 0

\* C19: the object URL made for the check is revoked exactly once, whether
\* the decoding succeeds or fails, and before the call sends the upload or
\* reports the failure.
C19_UrlRevokedOnce ==
  \A c \in Uploads :
    /\ c.urls.created = 1
    /\ c.urls.revoked = (IF c.pc = "check" THEN 0 ELSE 1)

\* The upload of a decoded image is on its way, its URL revoked.
C19_Witness ==
  \E c \in Uploads :
    /\ c.pc = "fetch"
    /\ c.file.image
    /\ c.urls = [created |-> 1, revoked |-> 1]

Searches == {c \in Outstanding : c.op = "search"}

\* C20: search fails with RequiredVariable "query" when the query is missing,
\* with RequiredVariable "type" when the query is given and the type is
\* missing, each time without a request; a request, to search?query={query},
\* is sent only when both are given.
C20_SearchRequiresArguments ==
  \A c \in Searches :
    /\ c.query \in {Undefined, ""} =>
         c.nreq = 0 /\ c.outcome = Throw("RequiredVariableError: query")
    /\ (c.query \notin {Undefined, ""} /\ c.searchType = NoType) =>
         c.nreq = 0 /\ c.outcome = Throw("RequiredVariableError: type")
    /\ c.nreq > 0 =>
         /\ c.query \notin {Undefined, ""}
         /\ c.searchType # NoType
         /\ c.nreq = 1
         /\ c.sent.path = (IF c.query = "cats" THEN <<"search?query=cats">>
                                               ELSE <<"search?query=dogs">>)

\* A search for cats without a type has been refused before any request.
C20_Witness ==
  \E c \in Searches :
    /\ c.query = "cats"
    /\ c.searchType = NoType
    /\ c.nreq = 0
    /\ c.outcome = Throw("RequiredVariableError: type")


(***************************************************************************)
(* Who is the authenticated user                                           *)
(***************************************************************************)
\* C21: deleteAccount and updateAccount compare the target with the
\* authenticated user's username without regard to letter case, as getUser
\* does: a target that differs only in case is a self operation and its path
\* has no username segment.
C21_AccountSelfIgnoresCase ==
  \A c \in AccountRequests :
    ToLowerCase(c.target) = ToLowerCase(user.username) =>
      c.sent.path = <<"accounts", Str(ApiDirectoryName(c.accountType))>>


\* C22: delete(password) and disable(password) of a User reach the server at
\* accounts/user when the User is the authenticated user and at
\* accounts/users/{username} otherwise: the class that Account passes to the
\* Client declares the path segment.
C22_UserAccountPath ==
  \A c \in AccountRequests :
    c.via \in {"Account.delete", "Account.disable"} =>
      c.sent.path = (IF c.target = user.username
                       THEN <<"accounts", "user">>
                       ELSE <<"accounts", "users", c.target>>)


\* C23: deleteSessionToken sends a DELETE to accounts/user/sessions whose
\* token header is the token to revoke: the argument when there is one, also
\* when it is not the Client's own token, and the Client's token otherwise.
C23_RevokedTokenIsSent ==
  \A c \in Outstanding :
    (c.op = "deleteSessionToken" /\ c.nreq > 0) =>
      /\ c.sent.method = "DELETE"
      /\ c.sent.path = <<"accounts", "user", "sessions">>
      /\ c.sent.headers.token = (IF c.tokenArg # Undefined THEN c.tokenArg ELSE token)


(***************************************************************************)
(* getUser: username and id                                                *)
(***************************************************************************)
Lookups == {c \in Outstanding : c.op = "getUser"}

\* The username names the user who was cached when the lookup began.
NamesCached(c) ==
  /\ c.userAtCall # NoUser
  /\ ToLowerCase(c.username) = ToLowerCase(c.userAtCall.username)

\* C24: when getUser is given a username and an id, the username decides:
\* the lookup is a self lookup iff the username is the cached user's, and a
\* lookup that is not asks for the user of that username, whatever the id.
C24_UsernamePrioritized ==
  \A c \in Lookups :
    (c.username # Undefined /\ c.id # Undefined) =>
      /\ c.self = NamesCached(c)
      /\ ~NamesCached(c) =>
           c.nreq = 1 /\ c.sent.path = <<"accounts", "users", c.username>>

\* C25: getUser given only an id that is not the cached user's asks the
\* server for the user with that id; its request names the id and is not
\* built from the username that was left out.
C25_LookupById ==
  \A c \in Lookups :
    (c.username = Undefined /\ c.id # Undefined /\ c.id # c.userAtCall.id) =>
      /\ c.nreq = 1
      /\ \E i \in DOMAIN c.sent.path : c.sent.path[i] = c.id
      /\ \A i \in DOMAIN c.sent.path : c.sent.path[i] # "undefined"


(***************************************************************************)
(* Reading content                                                         *)
(***************************************************************************)
\* The calls of getAllContent without a username whose request has gone out.
OwnContent ==
  {c \in Outstanding : c.op = "getAllContent" /\ c.username = Undefined /\ c.nreq > 0}

\* C26: getAllContent(type) without a username asks for the content of the
\* authenticated user, at contents/{type.apiDirectoryName}/{that user's
\* username}, whether or not the user is already cached.
C26_DefaultsToAuthenticatedUser ==
  \A c \in OwnContent :
    /\ Len(c.sent.path) = 3
    /\ c.sent.path[3] # "undefined"
    /\ c.userAtCall # NoUser =>
         c.sent.path = <<"contents", ApiDirectoryName(c.type), c.userAtCall.username>>

\* C27: every model that the Client returns holds the Client: the items of
\* getAllContent, like the model of getContent, can call delete() and
\* update(props), which send DELETE and PATCH to
\* contents/{typeDir}/{owner.username}/{slug}.
C27_ReturnedModelsHoldClient ==
  /\ \A c \in Outstanding :
       /\ c.outcome.model # NoModel => c.outcome.model.client
       /\ \A i \in DOMAIN c.outcome.models : c.outcome.models[i].client
  /\ \A c \in ModelCalls :
       /\ c.nreq = 1
       /\ c.sent.method = (IF c.via = "delete" THEN "DELETE" ELSE "PATCH")
       /\ c.sent.path = <<"contents", ApiDirectoryName(c.recv.cls),
                           c.recv.owner.username, c.recv.slug>>


(***************************************************************************)
(* The realtime gateway                                                    *)
(***************************************************************************)
\* C28: after any connect() and disconnect() calls the Client has at most one
\* open gateway connection: a connection that connect() opened is the
\* Client's current one or has been closed, so a disconnect() after two
\* connect() calls leaves none open.
C28_OneOpenConnection ==
  /\ sockets \subseteq {ws}
  /\ Cardinality(sockets) <= 1


(***************************************************************************)
(* The cache over time                                                     *)
(***************************************************************************)
\* C29: once the cache holds a User, no operation clears it or puts another
\* User in its place: later self lookups return the User cached first.
C29_CacheKept == [][user # NoUser => user' = user]_vars


\* The self lookups that began while the cache was empty, on a Client with a token.
EmptyCacheLookups ==
  {c \in Lookups : c.self /\ c.userAtCall = NoUser /\ token # Undefined}

\* The lookups that this step has completed with a User fetched from the server.
FetchedNow ==
  {d \in SettledNow : d.op = "getUser" /\ d.nreq = 1 /\ d.outcome.kind = "return"}

\* C30: self lookups that overlap while the cache is empty each send their
\* own GET accounts/user and each return a User; the cache holds the User of
\* the lookup whose response was processed last, and nothing but a self
\* lookup that succeeded writes the cache.
C30_LastLookupWins ==
  /\ [](\A c \in EmptyCacheLookups :
          /\ c.nreq = 1
          /\ c.sent.method = "GET"
          /\ c.sent.path = <<"accounts", "user">>
          /\ (c.pc = "done" /\ c.resp.ok /\ c.aborted = "no") =>
               c.outcome.kind = "return" /\ c.outcome.user.oid \in Oids)
  /\ [][/\ \A d \in FetchedNow : d.self => user' = d.outcome.user
        /\ user' # user =>
             \E d \in FetchedNow : d.self /\ user' = d.outcome.user]_vars

\* Of two self lookups that began with an empty cache, the second has
\* completed and its User has taken the place of the first one's.
C30_Witness ==
  \E c \in EmptyCacheLookups :
    /\ c.pc = "done"
    /\ c.outcome.user = user
    /\ user.oid = 2

====
